---- MODULE Spec2Model ----
(***************************************************************************)
(* Model of the HF command line driver.                                    *)
(*                                                                         *)
(*   src/src/main.rs     TargetTriplet::from_str, main                     *)
(*   src/src/compile.rs  CompilationError::pretty_print, compile           *)
(*                                                                         *)
(* Strings are sequences of one-character strings, so that split('-'),     *)
(* lines() and with_extension() are computed character by character.       *)
(* Three specifications share the variables:                               *)
(*   SpecResolve  one call of TargetTriplet::from_str                      *)
(*   SpecRender   one call of CompilationError::pretty_print               *)
(*   Spec         one run of main: Cli::parse, the opt check, the loop     *)
(*                over the files with compile() taken stage by stage       *)
(***************************************************************************)
EXTENDS Integers, Sequences, FiniteSets, TLC

VARIABLES
    s,                \* from_str: the argument
    res,              \* from_str: what the call produced
    self,             \* pretty_print: the CompilationError
    code,             \* pretty_print: the source text
    overflow_checks,  \* pretty_print: the build panics on usize overflow
    stderr,           \* pretty_print: the lines written by eprintln!
    pp,               \* pretty_print: "call", "returned" or "panicked"
    cli,              \* main: the parsed command line (target, opt, files)
    pc,               \* main: position in main / compile
    target,           \* main: the Target shared by all files
    idx,              \* main: 1-based index of the file being compiled
    log,              \* main: file system and stream events, in order
    ret               \* main: the value compile() returned for file idx

vars == <<s, res, self, code, overflow_checks, stderr, pp,
          cli, pc, target, idx, log, ret>>

resolveVars == <<s, res>>
renderVars == <<self, code, overflow_checks, stderr, pp>>
mainVars == <<cli, pc, target, idx, log, ret>>

----------------------------------------------------------------------------
(* Bounds of the model.                                                    *)

MaxVendors == 2     \* components between host and system in a generated triple
MaxCodeLen == 4     \* characters of source text
MaxLine == 3        \* largest location.0
MaxCol == 5         \* largest location.1
MaxDelta == 2       \* largest span().0
MaxWidth == 2       \* largest span().1
MaxFiles == 2       \* files on the command line

----------------------------------------------------------------------------
(* String literals.                                                        *)

S_x86 == <<"x", "8", "6">>
S_x86_64 == <<"x", "8", "6", "_", "6", "4">>
S_wasm32 == <<"w", "a", "s", "m", "3", "2">>
S_wasm64 == <<"w", "a", "s", "m", "6", "4">>
S_aarch64 == <<"a", "a", "r", "c", "h", "6", "4">>
S_riscv == <<"r", "i", "s", "c", "v">>
S_mips == <<"m", "i", "p", "s">>
S_powerpc == <<"p", "o", "w", "e", "r", "p", "c">>
S_sparc == <<"s", "p", "a", "r", "c">>
S_z390 == <<"z", "3", "9", "0">>
S_m68k == <<"m", "6", "8", "k">>
S_spirv == <<"s", "p", "i", "r", "v">>
S_riscv32 == <<"r", "i", "s", "c", "v", "3", "2">>
S_riscv64 == <<"r", "i", "s", "c", "v", "6", "4">>
S_riscv128 == <<"r", "i", "s", "c", "v", "1", "2", "8">>
S_windows == <<"w", "i", "n", "d", "o", "w", "s">>
S_linux == <<"l", "i", "n", "u", "x">>
S_bsd == <<"b", "s", "d">>
S_solaris == <<"s", "o", "l", "a", "r", "i", "s">>
S_illumos == <<"i", "l", "l", "u", "m", "o", "s">>
S_haiku == <<"h", "a", "i", "k", "u">>
S_redox == <<"r", "e", "d", "o", "x">>
S_theseus == <<"t", "h", "e", "s", "e", "u", "s">>
S_unknown == <<"u", "n", "k", "n", "o", "w", "n">>
S_pc == <<"p", "c">>
S_X86 == <<"X", "8", "6">>
S_bogus == <<"b", "o", "g", "u", "s">>
S_none == <<"n", "o", "n", "e">>
S_Linux == <<"L", "i", "n", "u", "x">>
S_empty == << >>

----------------------------------------------------------------------------
(* TargetTriplet::from_str (main.rs)                                       *)

\* enum ParseError
ParseError == {"InvalidTargetTriplet", "UnknownTargetTripletHost"}

\* s.split('-').collect(): "" gives [""], "a-" gives ["a", ""]
RECURSIVE SplitFrom(_, _, _)
SplitFrom(str, i, cur) ==
    IF i > Len(str) THEN <<cur>>
    ELSE IF str[i] = "-" THEN <<cur>> \o SplitFrom(str, i + 1, << >>)
    ELSE SplitFrom(str, i + 1, Append(cur, str[i]))

Split(str) == SplitFrom(str, 1, << >>)

\* match host.as_str() { ... }; "none" stands for the `_` arm
ArchOfAlias(host) ==
    CASE host = S_x86 -> "X86"
      [] host = S_X86 -> "X86"
      [] host = S_x86_64 -> "X86_64"
      [] host = S_wasm32 -> "Wasm32"
      [] host = S_wasm64 -> "Wasm64"
      [] host = S_aarch64 -> "Aarch64"
      [] host = S_riscv -> "RiscV"
      [] host = S_mips -> "Mips"
      [] host = S_powerpc -> "PowerPc"
      [] host = S_sparc -> "Sparc"
      [] host = S_z390 -> "Z390"
      [] host = S_m68k -> "M68k"
      [] host = S_spirv -> "SpirV"
      [] host = S_riscv32 -> "RiscV32"
      [] host = S_riscv64 -> "RiscV64"
      [] host = S_riscv128 -> "RiscV128"
      [] OTHER -> "none"

ArchOf(host) ==
    CASE host = S_x86 -> "X86"
      [] host = S_x86_64 -> "X86_64"
      [] host = S_wasm32 -> "Wasm32"
      [] host = S_wasm64 -> "Wasm64"
      [] host = S_aarch64 -> "Aarch64"
      [] host = S_riscv -> "RiscV"
      [] host = S_mips -> "Mips"
      [] host = S_powerpc -> "PowerPc"
      [] host = S_sparc -> "Sparc"
      [] host = S_z390 -> "Z390"
      [] host = S_m68k -> "M68k"
      [] host = S_spirv -> "SpirV"
      [] host = S_riscv32 -> "RiscV32"
      [] host = S_riscv64 -> "RiscV64"
      [] host = S_riscv128 -> "RiscV128"
      [] OTHER -> "none"

\* match system.as_str() { ... }; "none" stands for None
OsOf(system) ==
    CASE system = S_windows -> "Windows"
      [] system = S_linux -> "Linux"
      [] system = S_bsd -> "Bsd"
      [] system = S_solaris -> "Solaris"
      [] system = S_illumos -> "Illumos"
      [] system = S_haiku -> "Haiku"
      [] system = S_redox -> "Redox"
      [] system = S_theseus -> "Theseus"
      [] OTHER -> "none"

\* CallingConvention::from_arch_os of hf_codegen: a function of the pair,
\* left uninterpreted
from_arch_os(arch, os) == <<"cc", arch, os>>

Pending == [tag |-> "Pending", err |-> "none", arch |-> "none", cc |-> <<>>]
ErrOf(e) == [tag |-> "Err", err |-> e, arch |-> "none", cc |-> <<>>]
OkOf(arch, cc) == [tag |-> "Ok", err |-> "none", arch |-> arch, cc |-> cc]
\* todo!() unwinds: the call returns no value
Panic == [tag |-> "Panic", err |-> "none", arch |-> "none", cc |-> <<>>]

\* lines 32..76, with the vendor taken for the system
ResolvePartsVendor(host, vendor, system) ==
    LET arch == ArchOf(host)
        os == OsOf(vendor)
    IN  IF arch = "none" THEN ErrOf("UnknownTargetTripletHost")
        ELSE IF os # "none" THEN OkOf(arch, from_arch_os(arch, os))
        ELSE Panic

\* lines 32..76
ResolveParts(host, vendor, system) ==
    LET arch == ArchOf(host)
        os == OsOf(system)
    IN  IF arch = "none" THEN ErrOf("UnknownTargetTripletHost")
        ELSE IF os # "none" THEN OkOf(arch, from_arch_os(arch, os))
        ELSE Panic

\* the shape test written as `parts.len() < 3`
from_str_lt(str) ==
    LET parts == Split(str)
    IN  IF Len(parts) < 3 THEN ErrOf("InvalidTargetTriplet")
        ELSE ResolveParts(parts[1], parts[2], parts[3])

from_str(str) ==
    LET parts == Split(str)
    IN  IF Len(parts) # 3 THEN ErrOf("InvalidTargetTriplet")
        ELSE ResolveParts(parts[1], parts[2], parts[3])

----------------------------------------------------------------------------
(* Inputs of from_str: a host, up to MaxVendors middle components and a    *)
(* system joined by dashes, and single components without any dash.        *)

ArchNames ==
    {S_x86, S_x86_64, S_wasm32, S_wasm64, S_aarch64, S_riscv, S_mips,
     S_powerpc, S_sparc, S_z390, S_m68k, S_spirv, S_riscv32, S_riscv64,
     S_riscv128}

OsNames ==
    {S_windows, S_linux, S_bsd, S_solaris, S_illumos, S_haiku, S_redox,
     S_theseus}

HostInputs == ArchNames \cup {S_X86, S_bogus, S_empty, S_linux}
Vendors == {S_unknown, S_pc, S_empty, S_linux}
SystemInputs == OsNames \cup {S_none, S_Linux, S_empty, S_x86}

RECURSIVE Join(_)
Join(parts) ==
    IF Len(parts) = 0 THEN << >>
    ELSE IF Len(parts) = 1 THEN parts[1]
    ELSE parts[1] \o <<"-">> \o Join(Tail(parts))

Middles == UNION {[1..n -> Vendors] : n \in 0..MaxVendors}

TripleInputs ==
    {Join(<<h>> \o m \o <<sy>>) : h \in HostInputs, m \in Middles, sy \in SystemInputs}
    \cup HostInputs \cup SystemInputs

RECURSIVE CountDashes(_)
CountDashes(str) ==
    IF Len(str) = 0 THEN 0
    ELSE (IF Head(str) = "-" THEN 1 ELSE 0) + CountDashes(Tail(str))

----------------------------------------------------------------------------
(* Idle values of the variables a specification does not use.              *)

NoError == [kind |-> "none", location |-> <<0, 0>>, span |-> <<0, 0>>]
NoCli == [target |-> <<"none">>, opt |-> 0, files |-> << >>]
NoTarget == [arch |-> "none", cc |-> <<>>]

ResolveIdle == s = << >> /\ res = Pending
RenderIdle ==
    /\ self = NoError /\ code = << >> /\ overflow_checks = FALSE
    /\ stderr = << >> /\ pp = "idle"
MainIdle ==
    /\ cli = NoCli /\ pc = "idle" /\ target = NoTarget /\ idx = 0
    /\ log = << >> /\ ret = "none"

----------------------------------------------------------------------------
(* SpecResolve: one call of from_str.                                      *)

InitResolve ==
    /\ s \in TripleInputs
    /\ res = Pending
    /\ RenderIdle /\ MainIdle

FromStr ==
    /\ res.tag = "Pending"
    /\ res' = from_str(s)
    /\ UNCHANGED <<s, renderVars, mainVars>>

NextResolve == FromStr

SpecResolve == InitResolve /\ [][NextResolve]_vars

----------------------------------------------------------------------------
(* CompilationError::pretty_print (compile.rs)                             *)

\* The variants of enum CompilationError.  A TokenizerError and a SyntaxError
\* carry a location (line, column), zero-based; `span` is what span() returns
\* for a SyntaxError and the extent the tokenizer reports for a
\* TokenizerError, which pretty_print never reads (line 45).
Located == {"TokenizerError", "AstBuilderError"}
Plain == {"IoError", "CompilerError"}

Min(a, b) == IF a < b THEN a ELSE b

\* code.lines(): the text is cut at every "\n"; a final piece that is empty
\* (the text is empty or ends in "\n") is no line
RECURSIVE CutLines(_, _, _)
CutLines(text, i, cur) ==
    IF i > Len(text) THEN (IF Len(cur) = 0 THEN << >> ELSE <<cur>>)
    ELSE IF text[i] = "\n" THEN <<cur>> \o CutLines(text, i + 1, << >>)
    ELSE CutLines(text, i + 1, Append(cur, text[i]))

lines(text) == CutLines(text, 1, << >>)

location(e) == e.location

span_offset(e) == IF e.kind = "TokenizerError" THEN <<0, 1>> ELSE e.span

underline_line(e) == location(e)[1] + span_offset(e)[1]

\* the sum of column and width whatever the line delta
underline_len_sum(e) == location(e)[2] + span_offset(e)[2]

underline_len(e) ==
    IF span_offset(e)[1] = 0
    THEN location(e)[2] + span_offset(e)[2]
    ELSE span_offset(e)[2]

\* location.0.saturating_sub(2)
line_min(e) == IF location(e)[1] >= 2 THEN location(e)[1] - 2 ELSE 0

\* the window closed at the underline line, without the three lines after it
line_max_short(e, text) == Min(underline_line(e), Len(lines(text)))

\* underline_line.saturating_add(3).min(lines.len())
line_max(e, text) == Min(underline_line(e) + 3, Len(lines(text)))

\* `line_max - line_min` on usize: below zero the subtraction panics in a
\* build with overflow checks and wraps otherwise, to a count larger than
\* any number of lines
Underflows(e, text) == line_max(e, text) < line_min(e)

take_count(e, text) ==
    IF Underflows(e, text) THEN Len(lines(text))
    ELSE line_max(e, text) - line_min(e)

\* .enumerate().skip(line_min).take(..): the zero-based indices kept
relevant_first(e, text) == line_min(e)
relevant_end(e, text) ==
    Min(Len(lines(text)), line_min(e) + take_count(e, text))

Line(k, a, b, text) == [k |-> k, a |-> a, b |-> b, text |-> text]

\* (0..location.1).map(|_| ' ').chain("^".repeat(underline_len).chars())
Underline(e) ==
    [j \in 1..(location(e)[2] + underline_len(e)) |->
        IF j <= location(e)[2] THEN " " ELSE "^"]

\* the loop over relevant_lines, from index i up to (not including) stop
RECURSIVE EmitLines(_, _, _, _)
EmitLines(e, text, i, stop) ==
    IF i >= stop THEN << >>
    ELSE <<Line("src", i + 1, 0, lines(text)[i + 1])>>
         \o (IF i = underline_line(e)
             THEN <<Line("underline", 0, 0, Underline(e))>>
             ELSE << >>)
         \o EmitLines(e, text, i + 1, stop)

\* what one call writes to the error stream and how it ends
pretty_print(e, text, checks) ==
    IF e.kind = "IoError"
    THEN [out |-> <<Line("IO error", 0, 0, << >>)>>, status |-> "returned"]
    ELSE IF e.kind = "CompilerError"
    THEN [out |-> <<Line("Compiler error", 0, 0, << >>)>>, status |-> "returned"]
    ELSE IF Underflows(e, text) /\ checks
    THEN [out |-> << >>, status |-> "panicked"]
    ELSE [out |->
            <<Line("error", 0, 0, << >>),
              Line("->", location(e)[1] + 1, location(e)[2] + 1, << >>)>>
            \o EmitLines(e, text, relevant_first(e, text), relevant_end(e, text)),
          status |-> "returned"]

----------------------------------------------------------------------------
(* SpecRender: one call of pretty_print.                                   *)

CodeChars == {"a", "\n"}
Codes == UNION {[1..n -> CodeChars] : n \in 0..MaxCodeLen}

Errors ==
    [kind : Located, location : (0..MaxLine) \X (0..MaxCol),
     span : (0..MaxDelta) \X (0..MaxWidth)]
    \cup [kind : Plain, location : {<<0, 0>>}, span : {<<0, 0>>}]

InitRender ==
    /\ self \in Errors
    /\ code \in Codes
    /\ overflow_checks \in BOOLEAN
    /\ stderr = << >>
    /\ pp = "call"
    /\ ResolveIdle /\ MainIdle

PrettyPrint ==
    /\ pp = "call"
    /\ stderr' = pretty_print(self, code, overflow_checks).out
    /\ pp' = pretty_print(self, code, overflow_checks).status
    /\ UNCHANGED <<self, code, overflow_checks, resolveVars, mainVars>>

NextRender == PrettyPrint

SpecRender == InitRender /\ [][NextRender]_vars

----------------------------------------------------------------------------
(* main (main.rs) and compile (compile.rs)                                 *)

S_a_hf == <<"a", ".", "h", "f">>
S_d_b == <<"d", ".", "x", "/", "b">>
S_dot_hf == <<".", "h", "f">>
S_a_o == <<"a", ".", "o">>
S_o == <<"o">>

\* if opt > 3
max_opt == 3

\* position of the last `ch` in `str`, 0 if there is none
LastIndexOf(str, ch) ==
    LET at == {i \in 1..Len(str) : str[i] = ch}
    IN  IF at = {} THEN 0 ELSE CHOOSE i \in at : \A j \in at : j <= i

\* Path::with_extension for a path without a trailing separator: the file name
\* is what follows the last "/"; without a file name (empty, "..") the path is
\* unchanged; the stem is the name up to its last ".", or the whole name when
\* it has no "." or only a leading one; the result is directory, stem, ".",
\* ext.
with_extension(path, ext) ==
    LET slash == LastIndexOf(path, "/")
        name == SubSeq(path, slash + 1, Len(path))
        dot == LastIndexOf(name, ".")
        stem == IF dot <= 1 THEN name ELSE SubSeq(name, 1, dot - 1)
    IN  IF name = << >> \/ name = <<".", ".">> THEN path
        ELSE SubSeq(path, 1, slash) \o stem \o <<".">> \o ext

\* Target::native()
native == [arch |-> "native", cc |-> <<"cc", "native", "native">>]

Event(op, val) == [op |-> op, idx |-> idx, path |-> cli.files[idx], val |-> val]

\* Cli::parse() with the value parser of --target, and line 109.  clap exits
\* with a usage error when from_str returns Err; todo!() unwinds out of main.
ParseCli ==
    /\ pc = "parse"
    /\ LET r == from_str(cli.target.text)
       IN  \/ /\ ~cli.target.given
              /\ target' = native
              /\ pc' = "opt"
           \/ /\ cli.target.given /\ r.tag = "Ok"
              /\ target' = [arch |-> r.arch, cc |-> r.cc]
              /\ pc' = "opt"
           \/ /\ cli.target.given /\ r.tag = "Err"
              /\ pc' = "exit_usage"
              /\ UNCHANGED target
           \/ /\ cli.target.given /\ r.tag = "Panic"
              /\ pc' = "panicked"
              /\ UNCHANGED target
    /\ UNCHANGED <<cli, idx, log, ret, resolveVars, renderVars>>

\* lines 110..113
CheckOpt ==
    /\ pc = "opt"
    /\ \/ /\ cli.opt > max_opt
          /\ pc' = "exit_1"
       \/ /\ cli.opt <= max_opt
          /\ pc' = "loop"
    /\ UNCHANGED <<cli, target, idx, log, ret, resolveVars, renderVars>>

\* for file in files { compile::compile(file, ..) ... }
LoopNext ==
    /\ pc = "loop"
    /\ \/ /\ idx < Len(cli.files)
          /\ idx' = idx + 1
          /\ pc' = "read"
          /\ ret' = "none"
       \/ /\ idx = Len(cli.files)
          /\ pc' = "exit_0"
          /\ UNCHANGED <<idx, ret>>
    /\ UNCHANGED <<cli, target, log, resolveVars, renderVars>>

\* std::fs::read_to_string(&path).map_err(..)?
Read ==
    /\ pc = "read"
    /\ \/ /\ log' = Append(log, Event("read", "ok"))
          /\ pc' = "tokenize"
          /\ UNCHANGED ret
       \/ /\ log' = log \o <<Event("read", "err"), Event("return", "IoError")>>
          /\ ret' = "IoError"
          /\ pc' = "unwrap"
    /\ UNCHANGED <<cli, target, idx, resolveVars, renderVars>>

\* lines 103..113
Tokenize ==
    /\ pc = "tokenize"
    /\ \/ /\ log' = log \o <<Event("tokenize", "ok"), Event("println", "Tokens")>>
          /\ pc' = "build_ast"
          /\ UNCHANGED ret
       \/ /\ log' = log \o <<Event("tokenize", "err"),
                            Event("pretty_print", "TokenizerError"),
                            Event("return", "TokenizerError")>>
          /\ ret' = "TokenizerError"
          /\ pc' = "unwrap"
    /\ UNCHANGED <<cli, target, idx, resolveVars, renderVars>>

\* lines 115..125
BuildAst ==
    /\ pc = "build_ast"
    /\ \/ /\ log' = log \o <<Event("build_ast", "ok"), Event("println", "Ast")>>
          /\ pc' = "codegen"
          /\ UNCHANGED ret
       \/ /\ log' = log \o <<Event("build_ast", "err"),
                            Event("pretty_print", "AstBuilderError"),
                            Event("return", "AstBuilderError")>>
          /\ ret' = "AstBuilderError"
          /\ pc' = "unwrap"
    /\ UNCHANGED <<cli, target, idx, resolveVars, renderVars>>

ObjectEvent(val) ==
    [op |-> "fs::write", idx |-> idx,
     path |-> with_extension(cli.files[idx], S_o), val |-> val]

\* lines 127..138 where a CompilerError does not stop the object file
CodegenWrites ==
    /\ pc = "codegen"
    /\ \/ /\ log' = Append(log, Event("compile_to_object_file", "ok"))
          /\ pc' = "write"
          /\ UNCHANGED ret
       \/ /\ log' = log \o <<Event("compile_to_object_file", "err"),
                            ObjectEvent("ok"),
                            Event("return", "CompilerError")>>
          /\ ret' = "CompilerError"
          /\ pc' = "unwrap"
    /\ UNCHANGED <<cli, target, idx, resolveVars, renderVars>>

\* lines 127..138: from_ast, HfCompiler::new, compile_to_object_file(..)?
Codegen ==
    /\ pc = "codegen"
    /\ \/ /\ log' = Append(log, Event("compile_to_object_file", "ok"))
          /\ pc' = "write"
          /\ UNCHANGED ret
       \/ /\ log' = log \o <<Event("compile_to_object_file", "err"),
                            Event("return", "CompilerError")>>
          /\ ret' = "CompilerError"
          /\ pc' = "unwrap"
    /\ UNCHANGED <<cli, target, idx, resolveVars, renderVars>>

\* lines 140..145: obj.write().expect(..), fs::write(..).expect(..), println!,
\* Ok(()); either expect panics on Err
WriteObject ==
    /\ pc = "write"
    /\ \/ /\ log' = Append(log, Event("obj.write", "err"))
          /\ pc' = "panicked"
          /\ UNCHANGED ret
       \/ /\ log' = log \o <<Event("obj.write", "ok"), ObjectEvent("err")>>
          /\ pc' = "panicked"
          /\ UNCHANGED ret
       \/ /\ log' = log \o <<Event("obj.write", "ok"), ObjectEvent("ok"),
                            Event("println", "Wrote object file"),
                            Event("return", "Ok")>>
          /\ ret' = "Ok"
          /\ pc' = "unwrap"
    /\ UNCHANGED <<cli, target, idx, resolveVars, renderVars>>

\* the result of compile is dropped and the loop goes on
UnwrapIgnores ==
    /\ pc = "unwrap"
    /\ pc' = "loop"
    /\ UNCHANGED <<cli, target, idx, log, ret, resolveVars, renderVars>>

\* compile::compile(..).unwrap(): an Err panics, which ends the process
Unwrap ==
    /\ pc = "unwrap"
    /\ \/ /\ ret = "Ok"
          /\ pc' = "loop"
       \/ /\ ret # "Ok"
          /\ pc' = "panicked"
    /\ UNCHANGED <<cli, target, idx, log, ret, resolveVars, renderVars>>

----------------------------------------------------------------------------
(* Spec: one run of main.                                                  *)

Paths == {S_a_hf, S_d_b, S_dot_hf, S_a_o}
FileLists == UNION {[1..n -> Paths] : n \in 1..MaxFiles}

TargetArgs ==
    {[given |-> FALSE, text |-> << >>]}
    \cup [given : {TRUE},
          text : {Join(<<S_x86_64, S_unknown, S_linux>>),
                  Join(<<S_x86, S_pc, S_windows>>),
                  Join(<<S_bogus, S_unknown, S_linux>>),
                  Join(<<S_x86_64, S_linux>>),
                  Join(<<S_x86_64, S_unknown, S_none>>)}]

\* opt: u8
OptLevels == {0, max_opt, max_opt + 1, 255}

Init ==
    /\ cli \in [target : TargetArgs, opt : OptLevels, files : FileLists]
    /\ pc = "parse"
    /\ target = NoTarget
    /\ idx = 0
    /\ log = << >>
    /\ ret = "none"
    /\ ResolveIdle /\ RenderIdle

Next ==
    \/ ParseCli
    \/ CheckOpt
    \/ LoopNext
    \/ Read
    \/ Tokenize
    \/ BuildAst
    \/ Codegen
    \/ WriteObject
    \/ Unwrap

Spec == Init /\ [][Next]_vars

----------------------------------------------------------------------------
(* Properties of main and compile, checked under Spec.                     *)

\* positions of the events of file j with operation op and value val
At(j, op, val) ==
    {p \in 1..Len(log) : log[p].idx = j /\ log[p].op = op /\ log[p].val = val}

Calls(j, op) == {p \in 1..Len(log) : log[p].idx = j /\ log[p].op = op}

\* a stage of compile reported a failure, or compile returned an Err
IsFailure(e) ==
    \/ e.val = "err"
    \/ e.op = "return" /\ e.val # "Ok"

\* compile has returned or panicked for file j
Finished(j) ==
    \/ j < idx
    \/ j = idx /\ pc \in {"unwrap", "panicked", "loop", "exit_0"}

Stages == {"read", "tokenize", "build_ast", "compile_to_object_file", "obj.write"}

AllStagesOk(j) == \A st \in Stages : At(j, st, "ok") # {}

FullyCompiled(j) ==
    /\ AllStagesOk(j)
    /\ At(j, "fs::write", "ok") # {}
    /\ At(j, "return", "Ok") # {}

\* C1: whenever compile returns an Err (IoError, TokenizerError,
\* AstBuilderError or CompilerError), pretty_print was called for that error
\* of that file before the return.
C1_RenderedBeforeReturn ==
    \A p \in 1..Len(log) :
        (log[p].op = "return" /\ log[p].val # "Ok") =>
            \E q \in 1..(p - 1) :
                /\ log[q].op = "pretty_print"
                /\ log[q].idx = log[p].idx
                /\ log[q].val = log[p].val

\* C8: the files are compiled one at a time in the order given, and the first
\* failure ends the run: every file before the one being compiled was read,
\* compiled and written, and nothing is done for any file after one that
\* failed.
C8_InOrderUntilFirstFailure ==
    /\ \A p, q \in 1..Len(log) : p < q => log[p].idx <= log[q].idx
    /\ \A p \in 1..Len(log) :
        /\ log[p].idx \in 1..idx
        /\ log[p].op = "read" => log[p].path = cli.files[log[p].idx]
        /\ IsFailure(log[p]) =>
              /\ idx = log[p].idx
              /\ pc \in {"unwrap", "panicked"}
              /\ \A q \in 1..Len(log) : log[q].idx <= log[p].idx
    /\ \A j \in 1..(idx - 1) : FullyCompiled(j)
    /\ \A j \in 1..idx : Cardinality(Calls(j, "read")) <= 1
    /\ pc = "exit_0" => \A j \in 1..Len(cli.files) : FullyCompiled(j)

C8_Witness ==
    /\ pc = "panicked"
    /\ Len(cli.files) = 2
    /\ idx = 1
    /\ ret = "AstBuilderError"
    /\ Calls(2, "read") = {}

\* the object file of each input path of the model
ExpectedObject(path) ==
    CASE path = S_a_hf -> <<"a", ".", "o">>
      [] path = S_d_b -> <<"d", ".", "x", "/", "b", ".", "o">>
      [] path = S_dot_hf -> <<".", "h", "f", ".", "o">>
      [] path = S_a_o -> <<"a", ".", "o">>

\* C10: each call of compile reads its input file exactly once, and calls
\* fs::write if and only if read, tokenize, build_ast, code generation and
\* serialization all succeeded: then once, at the input path with its
\* extension replaced by "o", and before compile returns Ok; after a failed
\* stage nothing is written.
C10_OneReadOneWrite ==
    \A j \in 1..idx :
        /\ Cardinality(Calls(j, "read")) <= 1
        /\ (j < idx \/ pc # "read") => Cardinality(Calls(j, "read")) = 1
        /\ Cardinality(Calls(j, "fs::write")) <= 1
        /\ Calls(j, "fs::write") # {} => AllStagesOk(j)
        /\ Finished(j) => (Calls(j, "fs::write") # {} <=> AllStagesOk(j))
        /\ \A p \in Calls(j, "fs::write") :
              log[p].path = ExpectedObject(cli.files[j])
        /\ \A p \in At(j, "return", "Ok") :
              \E q \in At(j, "fs::write", "ok") : q < p
        /\ \A p \in Calls(j, "return") :
              log[p].val # "Ok" => Calls(j, "fs::write") = {}

C10_Witness ==
    /\ pc = "unwrap"
    /\ ret = "Ok"
    /\ cli.files[idx] = S_d_b
    /\ \E p \in At(idx, "fs::write", "ok") :
          log[p].path = <<"d", ".", "x", "/", "b", ".", "o">>

----------------------------------------------------------------------------
(* Properties of from_str, checked under SpecResolve.                      *)

Resolved == res.tag # "Pending"

\* C2: a triple of three components whose host is in the architecture table
\* and whose system is not in the OS table makes from_str return the error
\* value UnsupportedWithoutOs; the call neither succeeds nor aborts.
C2_UnsupportedWithoutOs ==
    Resolved =>
        \A h \in ArchNames, v \in Vendors, sy \in SystemInputs \ OsNames :
            s = Join(<<h, v, sy>>) => res = ErrOf("UnsupportedWithoutOs")

\* C3: a string with fewer or more than two dashes, which does not split into
\* exactly three components, is rejected with InvalidTargetTriplet (the
\* spec's MalformedTriple) and carries no architecture or calling convention.
C3_MalformedTriple ==
    (Resolved /\ CountDashes(s) # 2) => res = ErrOf("InvalidTargetTriplet")

C3_Witness ==
    /\ CountDashes(s) > 2
    /\ Split(s)[1] \in ArchNames
    /\ res = ErrOf("InvalidTargetTriplet")

\* C4: a string of three components whose host is not, character for
\* character, a name of the architecture table is rejected with
\* UnknownTargetTripletHost (the spec's UnknownArchitecture) whatever the
\* vendor and the system are.
C4_UnknownArchitecture ==
    Resolved =>
        \A h \in HostInputs \ ArchNames, v \in Vendors, sy \in SystemInputs :
            s = Join(<<h, v, sy>>) => res = ErrOf("UnknownTargetTripletHost")

C4_Witness ==
    /\ s = Join(<<S_empty, S_unknown, S_none>>)
    /\ res = ErrOf("UnknownTargetTripletHost")

\* the architecture the tests of main.rs expect, the table's value otherwise
ExpectedArch(h) ==
    IF h = S_x86_64 THEN "X86_64" ELSE IF h = S_x86 THEN "X86" ELSE ArchOf(h)

\* C5: a triple whose host is in the architecture table and whose system is
\* in the OS table resolves successfully to the table's architecture and to
\* the calling convention of the (architecture, OS) pair, whatever the vendor.
C5_Resolves ==
    Resolved =>
        \A h \in ArchNames, v \in Vendors, sy \in OsNames :
            s = Join(<<h, v, sy>>) =>
                /\ res.tag = "Ok"
                /\ res.arch = ExpectedArch(h)
                /\ res.arch # "none"
                /\ res.cc = from_arch_os(ExpectedArch(h), OsOf(sy))
                /\ res = from_str(Join(<<h, S_unknown, sy>>))

C5_Witness ==
    /\ s = Join(<<S_x86_64, S_pc, S_windows>>)
    /\ res = OkOf("X86_64", from_arch_os("X86_64", "Windows"))

----------------------------------------------------------------------------
(* Properties of pretty_print, checked under SpecRender.                   *)

total_lines == Len(lines(code))

\* the text is `n` spaces followed by `m` carets
IsUnderline(text, n, m) ==
    /\ Len(text) = n + m
    /\ \A j \in 1..Len(text) : text[j] = (IF j <= n THEN " " ELSE "^")

\* positions of the underline lines in the output
Underlines == {i \in 1..Len(stderr) : stderr[i].k = "underline"}

\* zero-based indices of the source lines in the output, in output order
RECURSIVE SourceIndices(_)
SourceIndices(out) ==
    IF Len(out) = 0 THEN << >>
    ELSE (IF Head(out).k = "src" THEN <<Head(out).a - 1>> ELSE << >>)
         \o SourceIndices(Tail(out))

\* the indices lo, lo + 1, .., hi - 1
Interval(lo, hi) == IF hi <= lo THEN << >> ELSE [j \in 1..(hi - lo) |-> lo + j - 1]

\* C6: a TokenizerError confined to one line is underlined with the span the
\* tokenizer reported: beneath line location.0, location.1 spaces and then
\* location.1 + column_width carets (7 carets at (3, 5) with width 2).
C6_TokenizeSpan ==
    (/\ pp = "returned"
     /\ self.kind = "TokenizerError"
     /\ self.span[1] = 0
     /\ self.location[1] < total_lines)
    => \E i \in 2..Len(stderr) :
        /\ stderr[i].k = "underline"
        /\ stderr[i - 1].k = "src"
        /\ stderr[i - 1].a - 1 = self.location[1]
        /\ IsUnderline(stderr[i].text, self.location[2],
                       self.location[2] + self.span[2])

\* C7: for a TokenizerError or SyntaxError located on a line of the source,
\* first and last line included, and any span, pretty_print returns without
\* panicking and its window satisfies
\* 0 <= line_min <= location.0 < line_max <= total_lines, with
\* line_min = max(0, location.0 - 2).
C7_WindowValid ==
    (/\ pp # "call"
     /\ self.kind \in Located
     /\ self.location[1] < total_lines)
    => /\ pp = "returned"
       /\ 0 <= line_min(self)
       /\ line_min(self) <= self.location[1]
       /\ self.location[1] < line_max(self, code)
       /\ line_max(self, code) <= total_lines
       /\ line_min(self) = (IF self.location[1] - 2 > 0 THEN self.location[1] - 2 ELSE 0)
       /\ SourceIndices(stderr) = Interval(line_min(self), line_max(self, code))

C7_Witness ==
    /\ pp = "returned"
    /\ self.kind = "AstBuilderError"
    /\ overflow_checks
    /\ total_lines >= 3
    /\ self.location[1] = total_lines - 1
    /\ self.span[1] > 0
    /\ Len(SourceIndices(stderr)) = 3

\* The span pretty_print works from (lines 44..48): span() of a SyntaxError,
\* (0, 1) for a TokenizerError.
span == span_offset(self)

\* the window and the underline as the specification computes them
spec_underline_line == self.location[1] + span[1]
spec_underline_len ==
    IF span[1] = 0 THEN self.location[2] + span[2] ELSE span[2]
spec_line_min == IF self.location[1] - 2 > 0 THEN self.location[1] - 2 ELSE 0
spec_line_max == Min(total_lines, spec_underline_line + 3)

====
